---- MODULE Spec2Model ----
(***************************************************************************)
(* Model of the evaluation run of src/predict.py (function main): loading  *)
(* the metadata and the train/test interaction matrices, building the test *)
(* generator, the batch loop (scoring call, masking of the training items, *)
(* Recall@K / NDCG@K accumulation), the final division by the number of    *)
(* users and the report.                                                   *)
(*                                                                         *)
(* Scores are integers, -inf or NaN.  Metric values are exact rationals    *)
(* [n, d] in lowest terms; 1/log2(p+1) is a table in thousandths.          *)
(* Floating-point rounding is not modelled.                                *)
(*                                                                         *)
(* The libraries data.py, util.py and model.py are not part of src/; the   *)
(* definitions that stand for them follow the specification text.          *)
(***************************************************************************)
EXTENDS Integers, Sequences, FiniteSets, TLC

\* ---------------------------------------------------------------- bounds
NumUsers == 3       \* rows of the interaction matrices
NumItems == 11      \* columns of the interaction matrices (above K10)
MaxBatchSize == 2   \* batch sizes 1..MaxBatchSize stand for line 250's 256

\* ------------------------------------------------------ program constants
K1 == 1
K5 == 5
K10 == 10

Users == 1..NumUsers
Items == 1..NumItems

\* Rows of the stored matrices, as the set of columns with a positive entry.
TrainRows == {{}, {1}}
TestRows == {{}, {1, 3}}

\* ---------------------------------------------------------------- scores
Fin(x) == <<"fin", x>>
NegInf == <<"ninf", 0>>
NaN == <<"nan", 0>>

\* Score rows the external model may return for one user: all equal,
\* item 2 first, item 1 first (values -1, 0, 1 with ties).
ScorePatterns == 1..3
ScoreRow(s, ncols) == [i \in 1..ncols |-> Fin((((s - 1) * i) % 3) - 1)]
NaNRow(s, ncols) == [i \in 1..ncols |-> IF i = 3 THEN NaN ELSE ScoreRow(s, ncols)[i]]

\* The loaded checkpoints: checkpoint m scores user u with pattern PatternOf(m, u).
PatternOf(m, u) == ((m + u) % 3) + 1

\* ------------------------------------------------------------- rationals
RECURSIVE GCD(_, _)
GCD(a, b) == IF b = 0 THEN a ELSE GCD(b, a % b)
Rat(n, d) == IF n = 0 THEN [n |-> 0, d |-> 1]
             ELSE [n |-> n \div GCD(n, d), d |-> d \div GCD(n, d)]
Zero == [n |-> 0, d |-> 1]
LCM(a, b) == (a \div GCD(a, b)) * b
RAdd(a, b) == Rat(a.n * (LCM(a.d, b.d) \div a.d) + b.n * (LCM(a.d, b.d) \div b.d),
                  LCM(a.d, b.d))
RDiv(a, k) == Rat(a.n, a.d * k)
RECURSIVE RSum(_)
RSum(s) == IF s = <<>> THEN Zero ELSE RAdd(RSum(SubSeq(s, 1, Len(s) - 1)), s[Len(s)])

VARIABLES
    pc,               \* position in main
    exc,              \* the exception that ended the run, "" if none
    meta,             \* meta.pkl: num_users, num_items
    train_mat,        \* train_matrix.npz
    test_mat,         \* test_matrix.npz
    twin_test_mat,    \* the test matrix of a second run, equal in all else
    rec_model,        \* the loaded checkpoint
    batch_size,
    test_data_gen,    \* the RecommendationGPTTestGeneratorBatch
    next_idx,         \* first user of the data loader's next batch
    batch,            \* input_ids, train_mat, target_mat, attention_mask
    call_args,        \* arguments of the last rec_model call
    twin_call_args,   \* arguments of the same call in the second run
    model_ret,        \* the scores as the model returned them
    dev_scores,       \* the tensor the model returned (item_scores, on device)
    item_scores,      \* the numpy array handed to the metric functions
    metric_inputs,    \* per user, the rows handed to the metric functions so far
    malformed,        \* the model returned malformed output in this run
    cur_recall_1, cur_recall_5, cur_recall_10, cur_NDCG_5, cur_NDCG_10,
    users_done,       \* users whose metrics were accumulated
    printed,          \* the final results were printed
    results           \* content of the results file, <<>> while not written

vars == <<pc, exc, meta, train_mat, test_mat, twin_test_mat, rec_model, batch_size,
          test_data_gen, next_idx, batch, call_args, twin_call_args,
          model_ret, dev_scores, item_scores, metric_inputs, malformed,
          cur_recall_1, cur_recall_5, cur_recall_10, cur_NDCG_5, cur_NDCG_10,
          users_done, printed, results>>

curs == <<cur_recall_1, cur_recall_5, cur_recall_10, cur_NDCG_5, cur_NDCG_10>>
loopvars == <<next_idx, batch, call_args, twin_call_args, model_ret,
              dev_scores, item_scores, metric_inputs, malformed, users_done>>
files == <<meta, train_mat, test_mat, twin_test_mat, rec_model, batch_size>>

\* ------------------------------------------------------- sparse matrices
Matrix(nrows, ncols, rows) == [shape |-> <<nrows, ncols>>, row |-> rows]
EmptyMatrix(nrows, ncols) == Matrix(nrows, ncols, [u \in 1..nrows |-> {}])
Dense(m, u) == [i \in 1..m.shape[2] |-> IF i \in m.row[u] THEN 1 ELSE 0]

\* ------------------------------------------------ data.py (test generator)
ShapesConsistent(md, train, test) ==
    /\ train.shape = test.shape
    /\ train.shape = <<md.num_users, md.num_items>>

NoGenerator == [num_users |-> 0, num_items |-> 0]
NewTestGenerator(train) == [num_users |-> train.shape[1], num_items |-> train.shape[2]]
LenGenerator(gen) == gen.num_users

\* encode(user): the user token followed by the tokens of the train items.
RECURSIVE SortedSeq(_)
SortedSeq(S) == IF S = {} THEN <<>>
                ELSE LET x == CHOOSE y \in S : \A z \in S : y <= z
                     IN <<x>> \o SortedSeq(S \ {x})
Encode(train, u) == <<u>> \o [j \in 1..Cardinality(train.row[u]) |->
                                  NumUsers + SortedSeq(train.row[u])[j]]
MaxOf(S) == CHOOSE x \in S : \A y \in S : y <= x
Pad(tokens, n) == [j \in 1..n |-> IF j <= Len(tokens) THEN tokens[j] ELSE 0]
PadMask(tokens, n) == [j \in 1..n |-> IF j <= Len(tokens) THEN 1 ELSE 0]

Collate(train, test, users) ==
    LET width == MaxOf({Len(Encode(train, users[p])) : p \in 1..Len(users)})
    IN [users |-> users,
        input_ids |-> [p \in 1..Len(users) |-> Pad(Encode(train, users[p]), width)],
        train_mat |-> [p \in 1..Len(users) |-> Dense(train, users[p])],
        target_mat |-> [p \in 1..Len(users) |-> Dense(test, users[p])],
        attention_mask |-> [p \in 1..Len(users) |-> PadMask(Encode(train, users[p]), width)]]

NoBatch == [users |-> <<>>, input_ids |-> <<>>, train_mat |-> <<>>,
            target_mat |-> <<>>, attention_mask |-> <<>>]

\* ------------------------------------------------------------ DataLoader
BatchUsersDropLast(first, size, n) ==
    IF first + size - 1 <= n THEN [p \in 1..size |-> first + p - 1] ELSE <<>>
BatchUsers(first, size, n) ==
    LET last == IF first + size - 1 <= n THEN first + size - 1 ELSE n
    IN [p \in 1..(last - first + 1) |-> first + p - 1]

\* --------------------------------------------------------------- ranking
Level(s) == IF s[1] = "fin" THEN 2 ELSE IF s[1] = "ninf" THEN 1 ELSE 0
Above(a, b) == \/ Level(a) > Level(b)
               \/ Level(a) = 2 /\ Level(b) = 2 /\ a[2] > b[2]
Before(row, j, i) == \/ Above(row[j], row[i])
                     \/ ~Above(row[i], row[j]) /\ j < i
RankOf(row, i) == 1 + Cardinality({j \in DOMAIN row : Before(row, j, i)})
InTopK(row, i, k) == RankOf(row, i) <= k
TopK(row, k) == {i \in DOMAIN row : InTopK(row, i, k)}

\* ---------------------------------------------------------------- util.py
Positives(target_row) == {i \in DOMAIN target_row : target_row[i] > 0}

RecallUser(target_row, score_row, k) ==
    IF Positives(target_row) = {} THEN Zero
    ELSE Rat(Cardinality({i \in Positives(target_row) : InTopK(score_row, i, k)}),
             Cardinality(Positives(target_row)))

Discount == <<1000, 631, 500, 431, 387, 356, 333, 315, 301, 289, 279, 270>>
RECURSIVE SumDiscount(_)
SumDiscount(P) == IF P = {} THEN 0
                  ELSE LET p == CHOOSE q \in P : TRUE
                       IN Discount[p] + SumDiscount(P \ {p})
DCG(target_row, score_row, k) ==
    SumDiscount({RankOf(score_row, i) : i \in {j \in Positives(target_row) : InTopK(score_row, j, k)}})
IDCG(target_row, k) ==
    LET np == Cardinality(Positives(target_row))
    IN SumDiscount(1..(IF np < k THEN np ELSE k))
NDCGUser(target_row, score_row, k) ==
    IF IDCG(target_row, k) = 0 THEN Zero
    ELSE Rat(DCG(target_row, score_row, k), IDCG(target_row, k))

Aggregate(values, agg) ==
    IF agg = "sum" THEN RSum(values) ELSE RDiv(RSum(values), Len(values))
Recall_at_k(target, scores, k, agg) ==
    Aggregate([p \in 1..Len(scores) |-> RecallUser(target[p], scores[p], k)], agg)
NDCG_at_k(target, scores, k, agg) ==
    Aggregate([p \in 1..Len(scores) |-> NDCGUser(target[p], scores[p], k)], agg)

\* ------------------------------------------------------------------ main
\* Line 282: item_scores[train_mat > 0] = -float("inf"), in place.
MaskScoresNone(scores, train) == scores
MaskScoresZero(scores, train) ==
    [p \in DOMAIN scores |-> [i \in DOMAIN scores[p] |->
        IF train[p][i] > 0 THEN Fin(0) ELSE scores[p][i]]]
MaskScores(scores, train) ==
    [p \in DOMAIN scores |-> [i \in DOMAIN scores[p] |->
        IF train[p][i] > 0 THEN NegInf ELSE scores[p][i]]]

\* Lines 277-279: rec_model(input_ids, target_mat, attention_mask).
ModelCallArgs(input_ids, target_mat, attention_mask) ==
    <<input_ids, target_mat, attention_mask>>

\* Lines 287-291: agg="sum".
AggModeMean == "mean"
AggMode == "sum"

\* Lines 302-312: the values as written with format .4f, in ten-thousandths.
RECURSIVE Decimals(_, _, _)
Decimals(rem, d, places) ==
    IF places = 0 THEN (IF 2 * rem >= d THEN 1 ELSE 0)
    ELSE ((10 * rem) \div d) * (10 ^ (places - 1)) + Decimals((10 * rem) % d, d, places - 1)
Format4(r) == (r.n \div r.d) * 10000 + Decimals(r.n % r.d, r.d, 4)

\* The test matrix with the entry of user u and item i flipped.
FlipEntry(test, u, i) ==
    Matrix(test.shape[1], test.shape[2],
           [test.row EXCEPT ![u] = IF i \in @ THEN @ \ {i} ELSE @ \cup {i}])

Init ==
    /\ pc = "load"
    /\ exc = ""
    /\ batch_size \in 1..MaxBatchSize
    /\ rec_model \in ScorePatterns
    /\ \/ /\ meta = [num_users |-> NumUsers, num_items |-> NumItems]
          /\ train_mat \in {Matrix(NumUsers, NumItems, r) : r \in [Users -> TrainRows]}
          /\ test_mat \in {Matrix(NumUsers, NumItems, r) : r \in [Users -> TestRows]}
          /\ twin_test_mat = FlipEntry(test_mat, 1, 2)
       \/ /\ meta = [num_users |-> NumUsers, num_items |-> NumItems]
          /\ train_mat = EmptyMatrix(NumUsers, NumItems)
          /\ test_mat \in {EmptyMatrix(NumUsers + 1, NumItems),
                           EmptyMatrix(NumUsers, NumItems - 1)}
          /\ twin_test_mat = test_mat
       \/ /\ meta \in {[num_users |-> NumUsers + 1, num_items |-> NumItems],
                       [num_users |-> NumUsers, num_items |-> NumItems + 1]}
          /\ train_mat = EmptyMatrix(NumUsers, NumItems)
          /\ test_mat = EmptyMatrix(NumUsers, NumItems)
          /\ twin_test_mat = test_mat
    /\ test_data_gen = NoGenerator
    /\ next_idx = 1
    /\ batch = NoBatch
    /\ call_args = <<>>
    /\ twin_call_args = <<>>
    /\ model_ret = <<>>
    /\ dev_scores = <<>>
    /\ item_scores = <<>>
    /\ metric_inputs = <<>>
    /\ malformed = FALSE
    /\ cur_recall_1 = Zero
    /\ cur_recall_5 = Zero
    /\ cur_recall_10 = Zero
    /\ cur_NDCG_5 = Zero
    /\ cur_NDCG_10 = Zero
    /\ users_done = 0
    /\ printed = FALSE
    /\ results = <<>>

\* Lines 129-180: metadata, matrices, RecommendationGPTTestGeneratorBatch(...).
LoadDataUnchecked ==
    /\ pc = "load"
    /\ test_data_gen' = NewTestGenerator(train_mat)
    /\ pc' = "loop"
    /\ UNCHANGED <<exc, files, loopvars, curs, printed, results>>
LoadData ==
    /\ pc = "load"
    /\ IF ShapesConsistent(meta, train_mat, test_mat)
       THEN /\ test_data_gen' = NewTestGenerator(train_mat)
            /\ pc' = "loop"
            /\ exc' = exc
       ELSE /\ test_data_gen' = test_data_gen
            /\ pc' = "failed"
            /\ exc' = "DataIntegrityError"
    /\ UNCHANGED <<files, loopvars, curs, printed, results>>

\* Line 269: the data loader yields the next batch, or the loop ends.
NextBatch ==
    /\ pc = "loop"
    /\ LET users == BatchUsers(next_idx, batch_size, LenGenerator(test_data_gen))
       IN IF users = <<>>
          THEN /\ pc' = "finalize"
               /\ UNCHANGED <<batch, next_idx>>
          ELSE /\ pc' = "batch"
               /\ batch' = Collate(train_mat, test_mat, users)
               /\ next_idx' = next_idx + Len(users)
    /\ UNCHANGED <<exc, files, test_data_gen, call_args, twin_call_args, model_ret,
                   dev_scores, item_scores, metric_inputs, malformed, users_done,
                   curs, printed, results>>

TwinTarget == Collate(train_mat, twin_test_mat, batch.users).target_mat

CallModel ==
    /\ call_args' = ModelCallArgs(batch.input_ids, batch.target_mat, batch.attention_mask)
    /\ twin_call_args' = ModelCallArgs(batch.input_ids, TwinTarget, batch.attention_mask)

\* Lines 277-279: the model returns one score per item for every user.
Score ==
    /\ pc = "batch"
    /\ CallModel
    /\ model_ret' = [p \in 1..Len(batch.users) |->
          ScoreRow(PatternOf(rec_model, batch.users[p]), test_data_gen.num_items)]
    /\ dev_scores' = model_ret'
    /\ pc' = "scored"
    /\ UNCHANGED <<exc, files, test_data_gen, next_idx, batch, item_scores,
                   metric_inputs, malformed, users_done, curs, printed, results>>

\* Lines 277-279: the model call raises; main has no handler.
ScoreRaisesSkipped ==
    /\ pc = "batch"
    /\ CallModel
    /\ exc' = "ModelError"
    /\ pc' = "loop"
    /\ UNCHANGED <<files, test_data_gen, next_idx, batch, model_ret, dev_scores,
                   item_scores, metric_inputs, malformed, users_done, curs,
                   printed, results>>
ScoreRaises ==
    /\ pc = "batch"
    /\ CallModel
    /\ exc' = "ModelError"
    /\ pc' = "failed"
    /\ UNCHANGED <<files, test_data_gen, next_idx, batch, model_ret, dev_scores,
                   item_scores, metric_inputs, malformed, users_done, curs,
                   printed, results>>

\* Lines 277-279: the model returns a NaN score or rows of the wrong length.
ScoreMalformed ==
    /\ pc = "batch"
    /\ CallModel
    /\ \E short \in BOOLEAN :
          /\ model_ret' = [p \in 1..Len(batch.users) |->
                IF short
                THEN ScoreRow(PatternOf(rec_model, batch.users[p]), test_data_gen.num_items - 1)
                ELSE NaNRow(PatternOf(rec_model, batch.users[p]), test_data_gen.num_items)]
          /\ dev_scores' = model_ret'
    /\ malformed' = TRUE
    /\ pc' = "scored"
    /\ UNCHANGED <<exc, files, test_data_gen, next_idx, batch, item_scores,
                   metric_inputs, users_done, curs, printed, results>>

\* Line 282: a mask of another shape than the scores raises IndexError.
Mask ==
    /\ pc = "scored"
    /\ IF \A p \in DOMAIN dev_scores : DOMAIN dev_scores[p] = DOMAIN batch.train_mat[p]
       THEN /\ dev_scores' = MaskScores(dev_scores, batch.train_mat)
            /\ pc' = "masked"
            /\ exc' = exc
       ELSE /\ dev_scores' = dev_scores
            /\ pc' = "failed"
            /\ exc' = "IndexError"
    /\ UNCHANGED <<files, test_data_gen, next_idx, batch, call_args, twin_call_args,
                   model_ret, item_scores, metric_inputs, malformed, users_done,
                   curs, printed, results>>

\* Lines 285-291: copy to numpy, accumulate the five metrics.
Metrics ==
    /\ pc = "masked"
    /\ item_scores' = dev_scores
    /\ cur_recall_1' = RAdd(cur_recall_1, Recall_at_k(batch.target_mat, item_scores', K1, AggMode))
    /\ cur_recall_5' = RAdd(cur_recall_5, Recall_at_k(batch.target_mat, item_scores', K5, AggMode))
    /\ cur_recall_10' = RAdd(cur_recall_10, Recall_at_k(batch.target_mat, item_scores', K10, AggMode))
    /\ cur_NDCG_5' = RAdd(cur_NDCG_5, NDCG_at_k(batch.target_mat, item_scores', K5, AggMode))
    /\ cur_NDCG_10' = RAdd(cur_NDCG_10, NDCG_at_k(batch.target_mat, item_scores', K10, AggMode))
    /\ metric_inputs' = metric_inputs \o
          [p \in 1..Len(batch.users) |->
              [user |-> batch.users[p], train |-> batch.train_mat[p],
               target |-> batch.target_mat[p], scores |-> item_scores'[p]]]
    /\ users_done' = users_done + Len(batch.users)
    /\ pc' = "loop"
    /\ UNCHANGED <<exc, files, test_data_gen, next_idx, batch, call_args,
                   twin_call_args, model_ret, dev_scores, malformed, printed, results>>

\* Lines 295-299: cur /= len(test_data_gen).
NonEmptyTargets == Cardinality({u \in 1..test_mat.shape[1] : test_mat.row[u] # {}})
DivideAll(n) ==
    /\ cur_recall_1' = RDiv(cur_recall_1, n)
    /\ cur_recall_5' = RDiv(cur_recall_5, n)
    /\ cur_recall_10' = RDiv(cur_recall_10, n)
    /\ cur_NDCG_5' = RDiv(cur_NDCG_5, n)
    /\ cur_NDCG_10' = RDiv(cur_NDCG_10, n)
FinalizeSkipEmpty ==
    /\ pc = "finalize"
    /\ DivideAll(IF NonEmptyTargets = 0 THEN 1 ELSE NonEmptyTargets)
    /\ pc' = "report"
    /\ UNCHANGED <<exc, files, test_data_gen, loopvars, printed, results>>
Finalize ==
    /\ pc = "finalize"
    /\ DivideAll(LenGenerator(test_data_gen))
    /\ pc' = "report"
    /\ UNCHANGED <<exc, files, test_data_gen, loopvars, printed, results>>

\* Lines 301-312: print the results and write the results file.
Report ==
    /\ pc = "report"
    /\ printed' = TRUE
    /\ results' = <<Format4(cur_recall_1), Format4(cur_recall_5), Format4(cur_recall_10),
                    Format4(cur_NDCG_5), Format4(cur_NDCG_10)>>
    /\ pc' = "done"
    /\ UNCHANGED <<exc, files, test_data_gen, loopvars, curs>>

Next ==
    \/ LoadData
    \/ NextBatch
    \/ Score
    \/ ScoreRaises
    \/ Mask
    \/ Metrics
    \/ Finalize
    \/ Report

Spec == Init /\ [][Next]_vars

NextMalformed == Next \/ ScoreMalformed

SpecMalformed == Init /\ [][NextMalformed]_vars

\* ------------------------------------------------- what the run has done
AccTargets == [j \in 1..Len(metric_inputs) |-> metric_inputs[j].target]
AccScores == [j \in 1..Len(metric_inputs) |-> metric_inputs[j].scores]
TotalUsers == test_mat.shape[1]
Divided == pc \in {"report", "done"}
TrainItems(j) == train_mat.row[metric_inputs[j].user]
Unmasked(j) == DOMAIN metric_inputs[j].scores \ TrainItems(j)

\* The same users scored, masked and ranked as one batch of TotalUsers users.
OneBatch == Collate(train_mat, test_mat, [u \in 1..TotalUsers |-> u])
OneBatchScores ==
    MaskScores([u \in 1..TotalUsers |-> ScoreRow(PatternOf(rec_model, u), train_mat.shape[2])],
               OneBatch.train_mat)
OneBatchRecall(k) ==
    RDiv(RAdd(Zero, Recall_at_k(OneBatch.target_mat, OneBatchScores, k, "sum")), TotalUsers)
OneBatchNDCG(k) ==
    RDiv(RAdd(Zero, NDCG_at_k(OneBatch.target_mat, OneBatchScores, k, "sum")), TotalUsers)
MeanRecall(k) ==
    Aggregate([u \in 1..TotalUsers |->
                  RecallUser(OneBatch.target_mat[u], OneBatchScores[u], k)], "mean")
MeanNDCG(k) ==
    Aggregate([u \in 1..TotalUsers |->
                  NDCGUser(OneBatch.target_mat[u], OneBatchScores[u], k)], "mean")

\* The per-user values of the accumulated users, those of users without a
\* positive test entry left out.
NonEmptyRecall(k) ==
    RSum([j \in 1..Len(metric_inputs) |->
            IF test_mat.row[metric_inputs[j].user] = {} THEN Zero
            ELSE RecallUser(metric_inputs[j].target, metric_inputs[j].scores, k)])
NonEmptyNDCG(k) ==
    RSum([j \in 1..Len(metric_inputs) |->
            IF test_mat.row[metric_inputs[j].user] = {} THEN Zero
            ELSE NDCGUser(metric_inputs[j].target, metric_inputs[j].scores, k)])

\* C1: every row handed to Recall_at_k and NDCG_at_k has -inf at every item
\* with a positive train entry of its user.
MaskedBeforeRanking ==
    \A j \in 1..Len(metric_inputs) : \A i \in TrainItems(j) :
        metric_inputs[j].scores[i] = NegInf

MaskedBeforeRankingWitness ==
    \E j \in 1..Len(metric_inputs) :
        /\ TrainItems(j) # {}
        /\ \A i \in TrainItems(j) : metric_inputs[j].scores[i] = NegInf

\* The example row: scores 0.9, 0.8, 0.1, 0.7 in tenths, masked with train_row.
ScenarioScores(train_row) ==
    MaskScores(<<[i \in 1..4 |-> Fin(<<9, 8, 1, 7>>[i])]>>, <<train_row>>)[1]

\* C2: whenever a user has at least K items without a train entry, no item
\* with a train entry is in the top-K prefix of the row the metrics ranked;
\* on test row [0,1,0,1] and scores [0.9,0.8,0.1,0.7] the top-2 is items 0, 1
\* (Recall@2 1/2) unmasked and items 1, 3 (Recall@2 1) with item 0 masked.
MaskedNeverInTopK ==
    /\ \A j \in 1..Len(metric_inputs) : \A k \in {K1, K5, K10} :
          Cardinality(Unmasked(j)) >= k =>
              \A i \in TrainItems(j) : ~InTopK(metric_inputs[j].scores, i, k)
    /\ TopK(ScenarioScores(<<0, 0, 0, 0>>), 2) = {1, 2}
    /\ RecallUser(<<0, 1, 0, 1>>, ScenarioScores(<<0, 0, 0, 0>>), 2) = Rat(1, 2)
    /\ TopK(ScenarioScores(<<1, 0, 0, 0>>), 2) = {2, 4}
    /\ RecallUser(<<0, 1, 0, 1>>, ScenarioScores(<<1, 0, 0, 0>>), 2) = Rat(1, 1)

\* A masked item the model had scored first, with K10 unmasked items left.
MaskedNeverInTopKWitness ==
    \E j \in 1..Len(metric_inputs) :
        /\ TrainItems(j) = {1}
        /\ Cardinality(Unmasked(j)) >= K10
        /\ InTopK(ScoreRow(PatternOf(rec_model, metric_inputs[j].user), train_mat.shape[2]), 1, K1)
        /\ 1 \notin TopK(metric_inputs[j].scores, K10)

\* C3: a run that differs only in the test matrix hands the scoring model
\* the same arguments.
TargetHiddenFromModel == call_args = twin_call_args

\* C4: after masking, the tensor the model returned still holds the
\* model's scores.
MaskingLeavesModelOutput == pc = "masked" => dev_scores = model_ret

\* C5: until the loop has ended each accumulator is the plain sum of the
\* per-user values of the users accumulated so far; after the division it
\* is that sum over all users divided once by the number of users, which is
\* the sum of the batch sizes.
SumThenDivideOnce ==
    /\ users_done = Len(metric_inputs)
    /\ ~Divided =>
          /\ cur_recall_1 = Recall_at_k(AccTargets, AccScores, K1, "sum")
          /\ cur_recall_5 = Recall_at_k(AccTargets, AccScores, K5, "sum")
          /\ cur_recall_10 = Recall_at_k(AccTargets, AccScores, K10, "sum")
          /\ cur_NDCG_5 = NDCG_at_k(AccTargets, AccScores, K5, "sum")
          /\ cur_NDCG_10 = NDCG_at_k(AccTargets, AccScores, K10, "sum")
    /\ Divided =>
          /\ users_done = TotalUsers
          /\ users_done = LenGenerator(test_data_gen)
          /\ cur_recall_1 = RDiv(Recall_at_k(AccTargets, AccScores, K1, "sum"), users_done)
          /\ cur_recall_5 = RDiv(Recall_at_k(AccTargets, AccScores, K5, "sum"), users_done)
          /\ cur_recall_10 = RDiv(Recall_at_k(AccTargets, AccScores, K10, "sum"), users_done)
          /\ cur_NDCG_5 = RDiv(NDCG_at_k(AccTargets, AccScores, K5, "sum"), users_done)
          /\ cur_NDCG_10 = RDiv(NDCG_at_k(AccTargets, AccScores, K10, "sum"), users_done)

\* A finished run of several batches, the last one smaller, with a nonzero sum.
SumThenDivideOnceWitness ==
    /\ pc = "done"
    /\ batch_size > 1
    /\ TotalUsers % batch_size # 0
    /\ cur_recall_5 # Zero
    /\ cur_NDCG_5 # Zero

\* C6: whatever the batch size, the final value of each metric is the value
\* of the run that takes all users as one batch, and the mean of the
\* per-user values.
AggregationEquivalence ==
    Divided =>
        /\ cur_recall_1 = OneBatchRecall(K1) /\ cur_recall_1 = MeanRecall(K1)
        /\ cur_recall_5 = OneBatchRecall(K5) /\ cur_recall_5 = MeanRecall(K5)
        /\ cur_recall_10 = OneBatchRecall(K10) /\ cur_recall_10 = MeanRecall(K10)
        /\ cur_NDCG_5 = OneBatchNDCG(K5) /\ cur_NDCG_5 = MeanNDCG(K5)
        /\ cur_NDCG_10 = OneBatchNDCG(K10) /\ cur_NDCG_10 = MeanNDCG(K10)

\* A finished run in unequal batches whose users have different values.
AggregationEquivalenceWitness ==
    /\ pc = "done"
    /\ batch_size > 1
    /\ TotalUsers % batch_size # 0
    /\ \E u, v \in 1..TotalUsers :
          RecallUser(OneBatch.target_mat[u], OneBatchScores[u], K5)
              # RecallUser(OneBatch.target_mat[v], OneBatchScores[v], K5)

\* C7: a user without a positive test entry adds nothing to any sum and is
\* counted in the divisor: each sum is the sum over the other users, and
\* the final value is that sum divided by the number of all users.
EmptyTargetCountsAsZero ==
    /\ ~Divided =>
          /\ cur_recall_1 = NonEmptyRecall(K1)
          /\ cur_recall_5 = NonEmptyRecall(K5)
          /\ cur_recall_10 = NonEmptyRecall(K10)
          /\ cur_NDCG_5 = NonEmptyNDCG(K5)
          /\ cur_NDCG_10 = NonEmptyNDCG(K10)
    /\ Divided =>
          /\ cur_recall_1 = RDiv(NonEmptyRecall(K1), TotalUsers)
          /\ cur_recall_5 = RDiv(NonEmptyRecall(K5), TotalUsers)
          /\ cur_recall_10 = RDiv(NonEmptyRecall(K10), TotalUsers)
          /\ cur_NDCG_5 = RDiv(NonEmptyNDCG(K5), TotalUsers)
          /\ cur_NDCG_10 = RDiv(NonEmptyNDCG(K10), TotalUsers)

\* A finished run with a user without test entries and a nonzero result.
EmptyTargetCountsAsZeroWitness ==
    /\ pc = "done"
    /\ \E u \in 1..TotalUsers : test_mat.row[u] = {}
    /\ cur_recall_10 # Zero
    /\ cur_NDCG_10 # Zero

\* C8: a raising model call ends the run where it is: the batch is not
\* accumulated, no later batch is fetched, nothing is printed or written;
\* and whatever is printed or written comes from a run without failure in
\* which every user was accumulated.
ModelFailureIsFatal ==
    /\ exc = "ModelError" =>
          /\ pc = "failed"
          /\ users_done = next_idx - 1 - Len(batch.users)
          /\ ~printed
          /\ results = <<>>
    /\ (printed \/ results # <<>>) =>
          /\ exc = ""
          /\ Len(metric_inputs) = TotalUsers
          /\ \A u \in 1..TotalUsers : metric_inputs[u].user = u

\* The model raised in a later batch, after some users were accumulated.
ModelFailureIsFatalWitness ==
    /\ pc = "failed"
    /\ exc = "ModelError"
    /\ users_done > 0
    /\ cur_recall_10 # Zero

MalformedOutputIsFatal ==
    malformed =>
        /\ pc \in {"scored", "failed"}
        /\ users_done = next_idx - 1 - Len(batch.users)
        /\ ~printed
        /\ results = <<>>

====
